---- MODULE Spec2Model ----
(***************************************************************************)
(* Model of kgqa_agent: the query router (query_router.py) answering       *)
(* questions over a networkx DiGraph, the graph builder                    *)
(* (graph_builder.py) assembling that graph from text chunks, and the      *)
(* ingest handler (api.py) storing the graphs that were built.             *)
(*                                                                         *)
(* Python str values are TLA+ strings; a character is a string of length   *)
(* one, obtained with SubSeq.  Regular expressions are modelled by the     *)
(* matches Python's backtracking engine finds for them.                    *)
(***************************************************************************)
EXTENDS Integers, Sequences, FiniteSets, TLC

\* graph: the DiGraph that build_graph_from_chunks builds and answer_question reads
\* call:  for each caller of answer_question, where its call stands
\* build: where the call of build_graph_from_chunks stands
\* graph_storage: the graphs stored by ingest_texts, by identifier
VARIABLES graph, call, build, graph_storage

vars == <<graph, call, build, graph_storage>>

\* ------------------------------------------------------------------------
\* Python str primitives
\* ------------------------------------------------------------------------
UPPER == "ABCDEFGHIJKLMNOPQRSTUVWXYZ"
LOWER == "abcdefghijklmnopqrstuvwxyz"
DIGITS == "0123456789_"

Ch(s, i) == SubSeq(s, i, i)

Chars(s) == {Ch(s, i) : i \in 1..Len(s)}

IsUpper(c) == c \in Chars(UPPER)
IsLower(c) == c \in Chars(LOWER)
\* \w of the re module, over the ASCII characters the texts use
IsWord(c) == IsUpper(c) \/ IsLower(c) \/ c \in Chars(DIGITS)
\* \s of the re module
IsSpace(c) == c \in {" ", "\n", "\t"}

LowerChar(c) ==
    IF IsUpper(c) THEN Ch(LOWER, CHOOSE i \in 1..26 : Ch(UPPER, i) = c) ELSE c

\* str.lower()
RECURSIVE lower(_)
lower(s) == IF s = "" THEN "" ELSE LowerChar(Ch(s, 1)) \o lower(SubSeq(s, 2, Len(s)))

\* str.strip()
RECURSIVE strip(_)
strip(s) ==
    IF s = "" THEN ""
    ELSE IF IsSpace(Ch(s, 1)) THEN strip(SubSeq(s, 2, Len(s)))
    ELSE IF IsSpace(Ch(s, Len(s))) THEN strip(SubSeq(s, 1, Len(s) - 1))
    ELSE s

\* sub in s
Contains(s, sub) ==
    \E i \in 1..(Len(s) - Len(sub) + 1) : SubSeq(s, i, i + Len(sub) - 1) = sub

\* s[i:].startswith(lit), i counted from 1
StartsAt(s, i, lit) == SubSeq(s, i, i + Len(lit) - 1) = lit

Max(S) == CHOOSE x \in S : \A y \in S : y <= x
Min(S) == CHOOSE x \in S : \A y \in S : x <= y

\* sep.join(parts)
RECURSIVE join(_, _)
join(sep, parts) ==
    IF Len(parts) = 0 THEN ""
    ELSE IF Len(parts) = 1 THEN parts[1]
    ELSE parts[1] \o sep \o join(sep, Tail(parts))

\* "".join(parts)
concat(parts) == join("", parts)

\* a list as the set of its elements
Range(seq) == {seq[i] : i \in 1..Len(seq)}

\* ------------------------------------------------------------------------
\* difflib.SequenceMatcher(None, a, b).ratio()
\* ------------------------------------------------------------------------
\* length of the longest common prefix of a[i:] and b[j:]
RECURSIVE CommonLen(_, _, _, _)
CommonLen(a, i, b, j) ==
    IF i > Len(a) \/ j > Len(b) \/ Ch(a, i) # Ch(b, j) THEN 0
    ELSE 1 + CommonLen(a, i + 1, b, j + 1)

\* find_longest_match: the longest matching block, the one starting earliest
\* in a, and among those the one starting earliest in b; no junk (isjunk is
\* None and autojunk only applies to sequences of 200 or more elements)
find_longest_match(a, b) ==
    LET k == Max({CommonLen(a, i, b, j) : i \in 1..Len(a), j \in 1..Len(b)} \cup {0})
        i == Min({x \in 1..Len(a) : \E y \in 1..Len(b) : CommonLen(a, x, b, y) = k})
        j == Min({y \in 1..Len(b) : CommonLen(a, i, b, y) = k})
    IN IF k = 0 THEN [i |-> 1, j |-> 1, size |-> 0] ELSE [i |-> i, j |-> j, size |-> k]

\* the sum of the sizes of get_matching_blocks(): the longest block, then the
\* same to its left and to its right
RECURSIVE MatchCount(_, _)
MatchCount(a, b) ==
    IF a = "" \/ b = "" THEN 0
    ELSE LET m == find_longest_match(a, b)
         IN IF m.size = 0 THEN 0
            ELSE m.size
                 + MatchCount(SubSeq(a, 1, m.i - 1), SubSeq(b, 1, m.j - 1))
                 + MatchCount(SubSeq(a, m.i + m.size, Len(a)), SubSeq(b, m.j + m.size, Len(b)))

\* threshold: float = 0.6, as the fraction ThresholdNum / ThresholdDen
ThresholdNum == 6
ThresholdDen == 10

\* ratio() >= threshold, where ratio() is 2.0 * matches / length, and 1.0
\* when both strings are empty
RatioAtLeastThreshold(a, b) ==
    LET T == Len(a) + Len(b)
    IN IF T = 0 THEN ThresholdDen >= ThresholdNum
       ELSE 2 * MatchCount(a, b) * ThresholdDen >= ThresholdNum * T

\* ------------------------------------------------------------------------
\* re.search of a template  lit0 (.*?) lit1 ... (.*?) litn
\* ------------------------------------------------------------------------
NoMatch == [matched |-> FALSE, groups |-> <<>>]

\* the template matched with lits[1] starting at pos: every lazy group takes
\* the fewest characters (none of them a newline) for which the rest matches
RECURSIVE LazyMatch(_, _, _)
LazyMatch(s, pos, lits) ==
    IF pos + Len(lits[1]) - 1 > Len(s) \/ ~StartsAt(s, pos, lits[1]) THEN NoMatch
    ELSE IF Len(lits) = 1 THEN [matched |-> TRUE, groups |-> <<>>]
    ELSE LET start == pos + Len(lits[1])
             cands == {j \in start..(Len(s) + 1) :
                          /\ "\n" \notin Chars(SubSeq(s, start, j - 1))
                          /\ LazyMatch(s, j, Tail(lits)).matched}
         IN IF cands = {} THEN NoMatch
            ELSE LET j == Min(cands)
                 IN [matched |-> TRUE,
                     groups |-> <<SubSeq(s, start, j - 1)>> \o LazyMatch(s, j, Tail(lits)).groups]

\* re.search(pattern, s): the match at the leftmost position that has one
re_search(lits, s) ==
    LET starts == {i \in 1..(Len(s) + 1) : LazyMatch(s, i, lits).matched}
    IN IF starts = {} THEN NoMatch ELSE LazyMatch(s, Min(starts), lits)

\* ------------------------------------------------------------------------
\* re.findall(r'\b[A-Z][a-z]+(?:\s+[A-Z][a-z]+)*\b', s) and
\* re.findall(r'"([^"]*)"', s)
\* ------------------------------------------------------------------------
\* \b between s[i-1] and s[i]
Boundary(s, i) ==
    LET before == i > 1 /\ i - 1 <= Len(s) /\ IsWord(Ch(s, i - 1))
        after == i >= 1 /\ i <= Len(s) /\ IsWord(Ch(s, i))
    IN before # after

\* the end of the longest run of characters satisfying the test from i on,
\* i - 1 when s[i] does not satisfy it
RECURSIVE LowerRunEnd(_, _)
LowerRunEnd(s, i) ==
    IF i <= Len(s) /\ IsLower(Ch(s, i)) THEN LowerRunEnd(s, i + 1) ELSE i - 1

RECURSIVE SpaceRunEnd(_, _)
SpaceRunEnd(s, i) ==
    IF i <= Len(s) /\ IsSpace(Ch(s, i)) THEN SpaceRunEnd(s, i + 1) ELSE i - 1

\* [A-Z][a-z]+ at i: the position of its last character, 0 when it fails
CapWordEnd(s, i) ==
    IF i <= Len(s) /\ IsUpper(Ch(s, i)) /\ LowerRunEnd(s, i + 1) > i
    THEN LowerRunEnd(s, i + 1) ELSE 0

\* the ends of [A-Z][a-z]+(?:\s+[A-Z][a-z]+)* after 0, 1, 2, ... repetitions,
\* given that the word before ends at e
RECURSIVE CapRunEnds(_, _)
CapRunEnds(s, e) ==
    LET sp == SpaceRunEnd(s, e + 1)
        nxt == IF sp > e THEN CapWordEnd(s, sp + 1) ELSE 0
    IN IF nxt = 0 THEN {e} ELSE {e} \cup CapRunEnds(s, nxt)

\* the match of the capitalised-words pattern starting at i: greedy, so the
\* longest repetition after which \b holds; 0 when there is no match at i
CapMatchEnd(s, i) ==
    IF ~Boundary(s, i) \/ CapWordEnd(s, i) = 0 THEN 0
    ELSE LET ends == {e \in CapRunEnds(s, CapWordEnd(s, i)) : Boundary(s, e + 1)}
         IN IF ends = {} THEN 0 ELSE Max(ends)

RECURSIVE CapFindAll(_, _)
CapFindAll(s, pos) ==
    IF pos > Len(s) THEN <<>>
    ELSE IF CapMatchEnd(s, pos) # 0
         THEN <<SubSeq(s, pos, CapMatchEnd(s, pos))>> \o CapFindAll(s, CapMatchEnd(s, pos) + 1)
         ELSE CapFindAll(s, pos + 1)

Quote == "\""

RECURSIVE QuotedFindAll(_, _)
QuotedFindAll(s, pos) ==
    LET opens == {i \in pos..Len(s) : Ch(s, i) = Quote /\ \E j \in (i + 1)..Len(s) : Ch(s, j) = Quote}
    IN IF opens = {} THEN <<>>
       ELSE LET i == Min(opens)
                j == Min({x \in (i + 1)..Len(s) : Ch(s, x) = Quote})
            IN <<SubSeq(s, i + 1, j - 1)>> \o QuotedFindAll(s, j + 1)

\* ------------------------------------------------------------------------
\* networkx.DiGraph: the nodes in insertion order with their 'type'
\* attribute, and for each node its successors (with the edge's 'relation'
\* attribute) and its predecessors, each in insertion order
\* ------------------------------------------------------------------------
\* an attribute that was never set
NoAttr == "<unset>"

EmptyGraph == [nodes |-> <<>>, succ |-> <<>>, pred |-> <<>>]

\* list(graph.nodes())
NodeList(g) == [i \in 1..Len(g.nodes) |-> g.nodes[i].label]

has_node(g, n) == n \in DOMAIN g.succ

has_edge(g, u, v) ==
    has_node(g, u) /\ \E i \in 1..Len(g.succ[u]) : g.succ[u][i].o = v

\* graph.edges(data=True), as a set
EdgeSet(g) ==
    UNION {{[s |-> u, o |-> g.succ[u][i].o, rel |-> g.succ[u][i].rel] :
              i \in 1..Len(g.succ[u])} : u \in DOMAIN g.succ}

number_of_nodes(g) == Len(g.nodes)
number_of_edges(g) == Cardinality(EdgeSet(g))

\* graph.add_node(n, type=t): a new node is appended, an existing one keeps
\* its place and has the attribute updated
add_node(g, n, t) ==
    IF has_node(g, n)
    THEN [g EXCEPT !.nodes = [i \in 1..Len(g.nodes) |->
                                IF g.nodes[i].label = n THEN [label |-> n, type |-> t]
                                ELSE g.nodes[i]]]
    ELSE [nodes |-> Append(g.nodes, [label |-> n, type |-> t]),
          succ |-> g.succ @@ (n :> <<>>),
          pred |-> g.pred @@ (n :> <<>>)]

\* add_edge creates an endpoint that is not a node yet, without attributes
ImplicitNode(g, n) == IF has_node(g, n) THEN g ELSE add_node(g, n, NoAttr)

\* add_edge leaving the attribute of an edge that is already there as it was
add_edge_KeepFirst(g, u, v, r) ==
    LET g1 == ImplicitNode(ImplicitNode(g, u), v)
    IN IF has_edge(g1, u, v) THEN g1
       ELSE [g1 EXCEPT !.succ[u] = Append(g1.succ[u], [o |-> v, rel |-> r]),
                       !.pred[v] = Append(g1.pred[v], u)]

\* graph.add_edge(u, v, relation=r): one edge per ordered pair, a second
\* add_edge of the pair overwrites the attribute and keeps the edge's place
add_edge(g, u, v, r) ==
    LET g1 == ImplicitNode(ImplicitNode(g, u), v)
    IN IF has_edge(g1, u, v)
       THEN [g1 EXCEPT !.succ[u] = [i \in 1..Len(g1.succ[u]) |->
                                      IF g1.succ[u][i].o = v THEN [o |-> v, rel |-> r]
                                      ELSE g1.succ[u][i]]]
       ELSE [g1 EXCEPT !.succ[u] = Append(g1.succ[u], [o |-> v, rel |-> r]),
                       !.pred[v] = Append(g1.pred[v], u)]

\* graph.edges[u, v].get('relation', default), for an edge that exists
edge_relation(g, u, v, default) ==
    LET e == g.succ[u][CHOOSE i \in 1..Len(g.succ[u]) : g.succ[u][i].o = v]
    IN IF e.rel = NoAttr THEN default ELSE e.rel

\* list(graph.successors(u)); graph.neighbors is the same method on a DiGraph
successors(g, u) == [i \in 1..Len(g.succ[u]) |-> g.succ[u][i].o]
predecessors(g, v) == g.pred[v]
neighbors(g, u) == successors(g, u)

\* the node sequences that follow edges from the last node of p to b without
\* visiting a node twice
RECURSIVE SimplePaths(_, _, _)
SimplePaths(g, p, b) ==
    IF p[Len(p)] = b THEN {p}
    ELSE UNION {SimplePaths(g, Append(p, v), b) :
                  v \in {w \in Range(successors(g, p[Len(p)])) : w \notin Range(p)}}

\* nx.shortest_path(graph, a, b): NodeNotFound when an endpoint is not a
\* node, NetworkXNoPath when b is not reachable, else a path of the fewest
\* edges (any of them: which one is the library's choice)
shortest_path(g, a, b) ==
    IF ~has_node(g, a) \/ ~has_node(g, b) THEN {[exc |-> "NodeNotFound", path |-> <<>>]}
    ELSE LET ps == SimplePaths(g, <<a>>, b)
         IN IF ps = {} THEN {[exc |-> "NetworkXNoPath", path |-> <<>>]}
            ELSE {[exc |-> "", path |-> p] :
                    p \in {q \in ps : \A r \in ps : Len(q) <= Len(r)}}

\* ------------------------------------------------------------------------
\* Inputs and bounds
\* ------------------------------------------------------------------------
MaxNodes == 3
MaxEdges == 2

\* the labels a node of the model can have
NodeNames == {"Google", "Googol", "Unknown", ""}
Relations == {"founded", "has"}

\* the questions asked of the graphs built from NodeNames
Questions ==
    { "What is the relationship between Google and Googol?",
      "What is the relationship between goo and Larry Page?",
      "How is Unknown related to Google?",
      "How is Google related to google?",
      "What is the relationship between Google?",
      "What is Unknown Entity?",
      "What is Google?",
      "Who is gogle?",
      "Who are ?",
      "Tell me about Google and \"Unknown\"",
      "Where is Larry Page",
      "tell me more" }

\* the questions asked of the sample_graph fixture
FixtureQuestions ==
    { "What is the relationship between Larry Page and Google?",
      "What is the relationship between Google and Larry Page?",
      "How is Larry Page related to Sergey Brin?",
      "What is Google?",
      "Who is Sundar Pichai?",
      "What is Unknown Entity?",
      "Tell me about Sergey Brin" }

AllQuestions == Questions \cup FixtureQuestions

Callers == {1}

\* the sample_graph fixture of the tests
sample_graph ==
    LET g1 == add_node(EmptyGraph, "Google", "Company")
        g2 == add_node(g1, "Larry Page", "Person")
        g3 == add_node(g2, "Sergey Brin", "Person")
        g4 == add_node(g3, "Sundar Pichai", "Person")
        g5 == add_edge(g4, "Larry Page", "Google", "co-founded")
        g6 == add_edge(g5, "Sergey Brin", "Google", "co-founded")
    IN add_edge(g6, "Sundar Pichai", "Google", "is CEO of")

\* ------------------------------------------------------------------------
\* QueryRouter
\* ------------------------------------------------------------------------
\* the outcome of a call: the value returned, or the exception raised
Return(v) == [raised |-> "", value |-> v]
Raise(e) == [raised |-> e, value |-> ""]

\* question_patterns with the 'what is X?' entry ahead of the relationship
\* entry
question_patterns_WhatIsFirst ==
    << [q_type |-> "what_is",
        patterns |-> << <<"what is ", "?">>, <<"what are ", "?">> >>],
       [q_type |-> "relationship",
        patterns |-> << <<"what is the relationship between ", " and ", "?">>,
                        <<"how is ", " related to ", "?">> >>],
       [q_type |-> "who_is",
        patterns |-> << <<"who is ", "?">>, <<"who are ", "?">> >>] >>

\* self.question_patterns, in the dict's order; each pattern is the list of
\* its literal parts, with a (.*?) between two consecutive parts
question_patterns ==
    << [q_type |-> "relationship",
        patterns |-> << <<"what is the relationship between ", " and ", "?">>,
                        <<"how is ", " related to ", "?">> >>],
       [q_type |-> "what_is",
        patterns |-> << <<"what is ", "?">>, <<"what are ", "?">> >>],
       [q_type |-> "who_is",
        patterns |-> << <<"who is ", "?">>, <<"who are ", "?">> >>] >>

question_words == {"What", "Who", "Where", "When", "How", "Why", "Which"}

extract_entities_from_question(question) ==
    SelectSeq(CapFindAll(question, 1) \o QuotedFindAll(question, 1),
              LAMBDA e : e \notin question_words)

RECURSIVE FirstPattern(_, _, _, _)
\* the two loops of classify_question from pattern p of table entry t on
FirstPattern(question, question_lower, t, p) ==
    IF t > Len(question_patterns)
    THEN [q_type |-> "general", entities |-> extract_entities_from_question(question)]
    ELSE IF p > Len(question_patterns[t].patterns)
    THEN FirstPattern(question, question_lower, t + 1, 1)
    ELSE LET match == re_search(question_patterns[t].patterns[p], question_lower)
         IN IF match.matched
            THEN [q_type |-> question_patterns[t].q_type,
                  entities |-> IF question_patterns[t].q_type = "relationship"
                               THEN <<strip(match.groups[1]), strip(match.groups[2])>>
                               ELSE <<strip(match.groups[1])>>]
            ELSE FirstPattern(question, question_lower, t, p + 1)

classify_question(question) == FirstPattern(question, lower(question), 1, 1)

\* classify_question for every question of the model, computed once
Classified == [q \in AllQuestions |-> classify_question(q)]

\* every mention a question of the model can produce
Mentions == UNION {Range(Classified[q].entities) : q \in AllQuestions}

\* the three tests find_similar_entities makes of a node against a mention
Compare(entity, node) ==
    LET entity_lower == lower(entity)
        node_lower == lower(node)
    IN [equal |-> entity_lower = node_lower,
        substring |-> Contains(node_lower, entity_lower) \/ Contains(entity_lower, node_lower),
        similar |-> RatioAtLeastThreshold(entity_lower, node_lower)]

\* every node label of the model
AllNames == NodeNames \cup Range(NodeList(sample_graph))

\* Compare for the mentions and node labels of the model, computed once
Compared == [e \in Mentions |-> [n \in AllNames |-> Compare(e, n)]]

\* the tests' outcomes, read from the table where the table has them
Lookup(table, entity, node) ==
    IF entity \in DOMAIN table /\ node \in DOMAIN table[entity] THEN table[entity][node]
    ELSE Compare(entity, node)

Tests(entity, node) == Lookup(Compared, entity, node)

\* the loop with an equal node appended to the candidates instead of
\* returned alone
RECURSIVE SimilarLoop_AppendExact(_, _, _, _)
SimilarLoop_AppendExact(nodes, i, entity, acc) ==
    IF i > Len(nodes) THEN acc
    ELSE LET node == nodes[i]
             t == Tests(entity, node)
             acc0 == IF t.equal THEN Append(acc, node) ELSE acc
             acc1 == IF t.substring THEN Append(acc0, node) ELSE acc0
             acc2 == IF t.similar THEN Append(acc1, node) ELSE acc1
         IN SimilarLoop_AppendExact(nodes, i + 1, entity, acc2)

\* the loop without the substring test
RECURSIVE SimilarLoop_NoSubstring(_, _, _, _)
SimilarLoop_NoSubstring(nodes, i, entity, acc) ==
    IF i > Len(nodes) THEN acc
    ELSE LET node == nodes[i]
             t == Tests(entity, node)
             acc2 == IF t.similar THEN Append(acc, node) ELSE acc
         IN IF t.equal THEN <<node>>
            ELSE SimilarLoop_NoSubstring(nodes, i + 1, entity, acc2)

\* the loop of find_similar_entities from node i on, acc being
\* similar_entities so far
RECURSIVE SimilarLoop(_, _, _, _)
\* the body of the loop for one node, t being the outcomes of its three tests
SimilarStep(nodes, i, entity, acc, node, t) ==
    IF t.equal THEN <<node>>
    ELSE SimilarLoop(nodes, i + 1, entity,
                     acc \o (IF t.substring THEN <<node>> ELSE <<>>)
                         \o (IF t.similar THEN <<node>> ELSE <<>>))

SimilarLoop(nodes, i, entity, acc) ==
    IF i > Len(nodes) THEN acc
    ELSE SimilarStep(nodes, i, entity, acc, nodes[i], Tests(entity, nodes[i]))

find_similar_entities(g, entity) == SimilarLoop(NodeList(g), 1, entity, <<>>)

\* {} when the entity is not a node
get_entity_information(g, entity) ==
    IF ~has_node(g, entity)
    THEN [present |-> FALSE, entity |-> entity, outgoing_relations |-> <<>>,
          incoming_relations |-> <<>>, neighbors |-> <<>>]
    ELSE [present |-> TRUE,
          entity |-> entity,
          outgoing_relations |->
              [i \in 1..Len(successors(g, entity)) |->
                  [target |-> successors(g, entity)[i],
                   relation |-> edge_relation(g, entity, successors(g, entity)[i], "unknown")]],
          incoming_relations |->
              [i \in 1..Len(predecessors(g, entity)) |->
                  [source |-> predecessors(g, entity)[i],
                   relation |-> edge_relation(g, predecessors(g, entity)[i], entity, "unknown")]],
          neighbors |-> neighbors(g, entity)]

\* find_path_between_entities, sp being what nx.shortest_path does
find_path_between_entities(g, sp) ==
    IF sp.exc = "NetworkXNoPath" THEN Return(<<>>)
    ELSE IF sp.exc # "" THEN Raise(sp.exc)
    ELSE Return([i \in 1..(Len(sp.path) - 1) |->
                    [source |-> sp.path[i],
                     relation |-> edge_relation(g, sp.path[i], sp.path[i + 1], "connected_to"),
                     target |-> sp.path[i + 1]]])

\* similar_entities[0]
First(seq) == seq[1]

\* info['neighbors'][:5]
NeighborLimit == 5

Prefix(seq, n) == SubSeq(seq, 1, IF Len(seq) < n THEN Len(seq) ELSE n)

NoInformation(entity) ==
    "I don't have information about '" \o entity \o "' in the knowledge graph."

\* the answer's lines for target_entity, info being its
\* get_entity_information
WhatIsParts(target_entity, info) ==
    <<"Based on the knowledge graph, here's what I know about " \o target_entity \o ":">>
    \o (IF Len(info.outgoing_relations) > 0
        THEN <<"\nRelationships:">>
             \o [i \in 1..Len(info.outgoing_relations) |->
                    "- " \o target_entity \o " " \o info.outgoing_relations[i].relation
                         \o " " \o info.outgoing_relations[i].target]
        ELSE <<>>)
    \o (IF Len(info.incoming_relations) > 0
        THEN <<"\nIs related to:">>
             \o [i \in 1..Len(info.incoming_relations) |->
                    "- " \o info.incoming_relations[i].source \o " "
                         \o info.incoming_relations[i].relation \o " " \o target_entity]
        ELSE <<>>)
    \o (IF Len(info.outgoing_relations) = 0 /\ Len(info.incoming_relations) = 0
        THEN <<"\nNo specific relationships found in the knowledge graph.">>
        ELSE <<>>)

\* answer_what_is_question once the mention has resolved to target_entity
WhatIsAnswer(target_entity, info) ==
    IF ~info.present
    THEN Return("I found '" \o target_entity \o "' but don't have detailed information about it.")
    ELSE Return(concat(WhatIsParts(target_entity, info)))

\* answer_what_is_question, similar_entities being
\* self.find_similar_entities(entity)
WhatIsFrom(g, entity, similar_entities) ==
    IF Len(similar_entities) = 0 THEN Return(NoInformation(entity))
    ELSE WhatIsAnswer(First(similar_entities),
                      get_entity_information(g, First(similar_entities)))

answer_what_is_question(g, entity) ==
    WhatIsFrom(g, entity, find_similar_entities(g, entity))

\* answer_relationship_question answers without a path search
Direct(r) == [searching |-> FALSE, result |-> r, t1 |-> "", t2 |-> ""]

\* the two direct-edge checks for the resolved nodes
DirectEdge(g, target_entity1, target_entity2) ==
    IF has_edge(g, target_entity1, target_entity2)
    THEN Direct(Return(target_entity1 \o " "
             \o edge_relation(g, target_entity1, target_entity2, "connected_to")
             \o " " \o target_entity2 \o "."))
    ELSE IF has_edge(g, target_entity2, target_entity1)
    THEN Direct(Return(target_entity2 \o " "
             \o edge_relation(g, target_entity2, target_entity1, "connected_to")
             \o " " \o target_entity1 \o "."))
    ELSE [searching |-> TRUE, result |-> Return(""),
          t1 |-> target_entity1, t2 |-> target_entity2]

\* answer_relationship_question, similar_entities1 and similar_entities2
\* being self.find_similar_entities of the two mentions
DirectFrom(g, entity1, entity2, similar_entities1, similar_entities2) ==
    IF Len(similar_entities1) = 0 THEN Direct(Return(NoInformation(entity1)))
    ELSE IF Len(similar_entities2) = 0 THEN Direct(Return(NoInformation(entity2)))
    ELSE DirectEdge(g, First(similar_entities1), First(similar_entities2))

\* answer_relationship_question handing the mentions, not the resolved
\* nodes, to the path search
RelationshipDirect_RawMentions(g, entity1, entity2) ==
    LET d == DirectFrom(g, entity1, entity2, find_similar_entities(g, entity1),
                        find_similar_entities(g, entity2))
    IN IF d.searching THEN [d EXCEPT !.t1 = entity1, !.t2 = entity2] ELSE d

\* answer_relationship_question checking the edge from the second-named
\* node first
RelationshipDirect_ReverseFirst(g, entity1, entity2) ==
    LET similar_entities1 == find_similar_entities(g, entity1)
        similar_entities2 == find_similar_entities(g, entity2)
        d == DirectEdge(g, First(similar_entities2), First(similar_entities1))
    IN IF Len(similar_entities1) = 0 THEN Direct(Return(NoInformation(entity1)))
       ELSE IF Len(similar_entities2) = 0 THEN Direct(Return(NoInformation(entity2)))
       ELSE IF d.searching
       THEN [d EXCEPT !.t1 = First(similar_entities1), !.t2 = First(similar_entities2)]
       ELSE d

\* answer_relationship_question up to the path search: the answer, or the
\* two resolved nodes the path search is called with
RelationshipDirect(g, entity1, entity2) ==
    DirectFrom(g, entity1, entity2, find_similar_entities(g, entity1),
               find_similar_entities(g, entity2))

\* answer_relationship_question from the path search on, sp being what
\* nx.shortest_path does for the two resolved nodes
RelationshipPath(g, target_entity1, target_entity2, sp) ==
    LET path == find_path_between_entities(g, sp)
        segments == [i \in 1..Len(path.value) |->
                        path.value[i].source \o " (" \o path.value[i].relation \o ") "
                            \o path.value[i].target]
    IN IF path.raised # "" THEN path
       ELSE IF Len(path.value) > 0
       THEN Return("There is an indirect relationship: " \o join(" -> ", segments))
       ELSE Return("No relationship found between " \o target_entity1 \o " and "
                   \o target_entity2 \o " in the knowledge graph.")

\* the loop of answer_general_question from mention i on
\* the line of answer_general_question for target_entity, info being its
\* get_entity_information
InfoLine(target_entity, info) ==
    IF info.present
    THEN <<"**" \o target_entity \o "**: Connected to "
           \o join(", ", Prefix(info.neighbors, NeighborLimit))>>
    ELSE <<>>

\* the body of the loop for one mention, similar_entities being
\* self.find_similar_entities(entity)
MentionInfo(g, similar_entities) ==
    IF Len(similar_entities) > 0
    THEN InfoLine(First(similar_entities),
                  get_entity_information(g, First(similar_entities)))
    ELSE <<>>

RECURSIVE RelevantInfo(_, _, _)
RelevantInfo(g, entities, i) ==
    IF i > Len(entities) THEN <<>>
    ELSE MentionInfo(g, find_similar_entities(g, entities[i]))
         \o RelevantInfo(g, entities, i + 1)

\* answer_general_question, relevant_info being what the loop collected
GeneralAnswer(relevant_info) ==
    IF Len(relevant_info) = 0
    THEN Return("I couldn't find relevant information for the entities mentioned in your question.")
    ELSE Return("Here's what I found:\n" \o join("\n", relevant_info))

answer_general_question(g, entities) ==
    IF Len(entities) = 0
    THEN Return("I need more specific information to answer your question.")
    ELSE GeneralAnswer(RelevantInfo(g, entities, 1))

EmptyGraphAnswer == "The knowledge graph is empty. Please ingest some text first."

\* ------------------------------------------------------------------------
\* KnowledgeGraphBuilder
\* ------------------------------------------------------------------------
stop_words == {"The", "This", "That", "These", "Those", "A", "An"}

\* len(entity) > 2
MinEntityLen == 3

extract_entities(text) ==
    {entity \in Range(CapFindAll(text, 1)) \cup Range(QuotedFindAll(text, 1)) :
        entity \notin stop_words /\ Len(entity) >= MinEntityLen}

\* relation_patterns, in the list's order: the words between the two groups
\* (each with its alternatives, \s+ before and after each) and the relation
\* type
relation_patterns ==
    << [words |-> << <<"is">>, <<"a", "an">> >>, relation_type |-> "is_a"],
       [words |-> << <<"has">> >>, relation_type |-> "has"],
       [words |-> << <<"works">>, <<"at">> >>, relation_type |-> "works_at"],
       [words |-> << <<"lives">>, <<"in">> >>, relation_type |-> "lives_in"],
       [words |-> << <<"founded">> >>, relation_type |-> "founded"],
       [words |-> << <<"created">> >>, relation_type |-> "created"] >>

\* the positions at which \w+(?:\s+\w+)* can end when it starts at i: the
\* characters from i on are word characters and white space, the last one a
\* word character
RECURSIVE GroupEnds(_, _)
GroupEnds(s, p) ==
    IF p > Len(s) THEN {}
    ELSE IF IsWord(Ch(s, p)) THEN {p} \cup GroupEnds(s, p + 1)
    ELSE IF IsSpace(Ch(s, p)) THEN GroupEnds(s, p + 1)
    ELSE {}

\* \s+ at i: the position after the white space, 0 when there is none
AfterSpaces(s, i) == IF SpaceRunEnd(s, i) >= i THEN SpaceRunEnd(s, i) + 1 ELSE 0

\* the words from the k-th on, each followed by \s+, matched at i without
\* regard to case: the position after them, where the second group must
\* start, 0 when they do not match
RECURSIVE WordsMatch(_, _, _, _)
WordsMatch(s, i, words, k) ==
    IF i = 0 THEN 0
    ELSE IF k > Len(words)
    THEN IF i <= Len(s) /\ IsWord(Ch(s, i)) THEN i ELSE 0
    ELSE LET after == [a \in 1..Len(words[k]) |->
                         IF /\ i + Len(words[k][a]) - 1 <= Len(s)
                            /\ lower(SubSeq(s, i, i + Len(words[k][a]) - 1)) = words[k][a]
                         THEN WordsMatch(s, AfterSpaces(s, i + Len(words[k][a])), words, k + 1)
                         ELSE 0]
             hits == {a \in 1..Len(words[k]) : after[a] # 0}
         IN IF hits = {} THEN 0 ELSE after[Min(hits)]

\* the match of a relation pattern that starts at i: the first group is
\* greedy and gives back one position at a time, the second group is greedy
RelationMatchAt(s, i, words) ==
    LET ends == {p \in (IF IsWord(Ch(s, i)) THEN GroupEnds(s, i) ELSE {}) :
                    WordsMatch(s, AfterSpaces(s, p + 1), words, 1) # 0}
        p1 == Max(ends)
        start2 == WordsMatch(s, AfterSpaces(s, p1 + 1), words, 1)
        p2 == Max(GroupEnds(s, start2))
    IN IF ends = {} THEN NoMatch
       ELSE [matched |-> TRUE,
             groups |-> <<SubSeq(s, i, p1), SubSeq(s, start2, p2)>>,
             end |-> p2 + 1]

\* re.finditer(pattern, s, re.IGNORECASE) from pos on: the matches from left
\* to right, none overlapping the one before
RECURSIVE re_finditer(_, _, _)
re_finditer(words, s, pos) ==
    IF pos > Len(s) THEN <<>>
    ELSE LET match == RelationMatchAt(s, pos, words)
         IN IF match.matched
            THEN <<match>> \o re_finditer(words, s, match.end)
            ELSE re_finditer(words, s, pos + 1)

\* the test of a match: any(subject.lower() in entity.lower() ...) and
\* any(obj.lower() in entity.lower() ...)
Accepted(subject, obj, entities) ==
    /\ \E entity \in entities : Contains(lower(entity), lower(subject))
    /\ \E entity \in entities : Contains(lower(entity), lower(obj))

\* the inner loop of extract_relations over the matches of one pattern
RECURSIVE PatternRelations(_, _, _, _)
PatternRelations(matches, m, relation_type, entities) ==
    IF m > Len(matches) THEN <<>>
    ELSE LET subject == strip(matches[m].groups[1])
             obj == strip(matches[m].groups[2])
         IN (IF Accepted(subject, obj, entities)
             THEN << <<subject, relation_type, obj>> >> ELSE <<>>)
            \o PatternRelations(matches, m + 1, relation_type, entities)

\* the outer loop of extract_relations from pattern t on
RECURSIVE RelationsFrom(_, _, _)
RelationsFrom(text, entities, t) ==
    IF t > Len(relation_patterns) THEN <<>>
    ELSE PatternRelations(re_finditer(relation_patterns[t].words, text, 1), 1,
                          relation_patterns[t].relation_type, entities)
         \o RelationsFrom(text, entities, t + 1)

extract_relations(text, entities) == RelationsFrom(text, entities, 1)

\* return None
None == [found |-> FALSE, entity |-> ""]

\* _find_best_entity_match(entity, entity_set) returning the mention itself
_find_best_entity_match_Mention(entity, order) == [found |-> TRUE, entity |-> entity]

\* _find_best_entity_match(entity, entity_set), order being the order in
\* which the set is iterated: the first loop, then the second loop
_find_best_entity_match(entity, order) ==
    LET entity_lower == lower(entity)
        exact == {k \in 1..Len(order) : lower(order[k]) = entity_lower}
        partial == {k \in 1..Len(order) :
                      \/ Contains(lower(order[k]), entity_lower)
                      \/ Contains(entity_lower, lower(order[k]))}
    IN IF exact # {} THEN [found |-> TRUE, entity |-> order[Min(exact)]]
       ELSE IF partial # {} THEN [found |-> TRUE, entity |-> order[Min(partial)]]
       ELSE None

\* the truth value of what _find_best_entity_match returned
Truthy(match) == match.found /\ match.entity # ""

\* ------------------------------------------------------------------------
\* get_graph_stats and get_graph_summary
\* ------------------------------------------------------------------------
\* the nodes joined to a node of S by an edge, whatever its direction
Adjacent(g, S) ==
    S \cup {e.o : e \in {x \in EdgeSet(g) : x.s \in S}}
      \cup {e.s : e \in {x \in EdgeSet(g) : x.o \in S}}

RECURSIVE WeakComponent(_, _)
WeakComponent(g, S) ==
    IF Adjacent(g, S) = S THEN S ELSE WeakComponent(g, Adjacent(g, S))

\* nx.number_weakly_connected_components(graph)
number_weakly_connected_components(g) ==
    Cardinality({WeakComponent(g, {n}) : n \in Range(NodeList(g))})

\* round(x, 4) of the fraction num / den, in ten-thousandths, halves going to
\* the even neighbour
Round4(num, den) ==
    LET scaled == num * 10000
        quot == scaled \div den
        twice == 2 * (scaled % den)
    IN IF twice > den \/ (twice = den /\ quot % 2 = 1) THEN quot + 1 ELSE quot

\* round(nx.density(graph), 4), in ten-thousandths
density(g) ==
    IF number_of_nodes(g) <= 1 THEN 0
    ELSE Round4(number_of_edges(g), number_of_nodes(g) * (number_of_nodes(g) - 1))

get_graph_stats(g) ==
    [nodes |-> number_of_nodes(g),
     edges |-> number_of_edges(g),
     connected_components |-> number_weakly_connected_components(g),
     density |-> density(g)]

\* graph.degree(): the in-degree plus the out-degree
degree(g, n) == Len(g.succ[n]) + Len(g.pred[n])

\* sorted(node_degrees.items(), key=lambda x: x[1], reverse=True): the
\* positions of the nodes by decreasing degree, equal degrees keeping the
\* node order
RECURSIVE SortedByDegree(_, _)
SortedByDegree(g, left) ==
    IF left = {} THEN <<>>
    ELSE LET best == CHOOSE i \in left :
                        \A j \in left :
                            \/ degree(g, NodeList(g)[i]) > degree(g, NodeList(g)[j])
                            \/ degree(g, NodeList(g)[i]) = degree(g, NodeList(g)[j]) /\ i <= j
         IN <<NodeList(g)[best]>> \o SortedByDegree(g, left \ {best})

\* [:5] of the sorted items
TopLimit == 5

get_graph_summary(g) ==
    IF number_of_nodes(g) = 0 THEN "The knowledge graph is empty."
    ELSE LET top_entities == Prefix(SortedByDegree(g, 1..number_of_nodes(g)), TopLimit)
         IN join("\n",
               << "Knowledge Graph Summary:",
                  "- " \o ToString(number_of_nodes(g)) \o " entities",
                  "- " \o ToString(number_of_edges(g)) \o " relationships",
                  "- " \o ToString(number_weakly_connected_components(g))
                       \o " connected components",
                  "\nTop entities by connections:" >>
               \o [i \in 1..Len(top_entities) |->
                     "- " \o top_entities[i] \o " ("
                          \o ToString(degree(g, top_entities[i])) \o " connections)"])

\* graph_storage: dict[str, dict] = {}
NoGraphs == <<>>

\* no build_graph_from_chunks call is in progress
NotBuilding == [pc |-> "none", chunks |-> <<>>, i |-> 0, order |-> <<>>, relations |-> <<>>]

\* ------------------------------------------------------------------------
\* answer_question, the steps of one call
\* ------------------------------------------------------------------------
Idle == [pc |-> "idle", op |-> "", question |-> "", q_type |-> "", entities |-> <<>>,
         t1 |-> "", t2 |-> "", searched |-> FALSE, result |-> Return("")]

Finished(r) == IF r.raised # "" THEN "raised" ELSE "done"

Quiescent == \A c \in DOMAIN call : call[c].pc = "idle"

\* the graph's owner adds a node
AddNode(n) ==
    /\ Quiescent
    /\ ~has_node(graph, n)
    /\ number_of_nodes(graph) < MaxNodes
    /\ graph' = add_node(graph, n, "entity")
    /\ UNCHANGED <<call, build, graph_storage>>

\* the graph's owner adds an edge between two nodes
AddEdge(u, r, v) ==
    /\ Quiescent
    /\ has_node(graph, u) /\ has_node(graph, v) /\ u # v
    /\ number_of_edges(add_edge(graph, u, v, r)) <= MaxEdges
    /\ graph' = add_edge(graph, u, v, r)
    /\ UNCHANGED <<call, build, graph_storage>>

\* the call has classified its question and goes on to the dispatch
Routed(q, classified) ==
    [Idle EXCEPT !.pc = "route", !.op = "answer_question", !.question = q,
                 !.q_type = classified.q_type, !.entities = classified.entities]

\* answer_question without the empty-graph check
Enter_NoEmptyCheck(c, q) ==
    /\ call[c].pc = "idle"
    /\ call' = [call EXCEPT ![c] = Routed(q, Classified[q])]
    /\ UNCHANGED <<graph, build, graph_storage>>

\* answer_question is called: the empty-graph check, then
\* router.classify_question(question)
Enter(c, q) ==
    /\ call[c].pc = "idle"
    /\ call' = [call EXCEPT ![c] =
                  IF number_of_nodes(graph) = 0
                  THEN [Idle EXCEPT !.pc = "done", !.op = "answer_question",
                                    !.question = q,
                                    !.result = Return(EmptyGraphAnswer)]
                  ELSE Routed(q, Classified[q])]
    /\ UNCHANGED <<graph, build, graph_storage>>

\* the if / elif chain of answer_question
\* the call returns r, or raises
Returned(cl, r) == [cl EXCEPT !.pc = Finished(r), !.result = r]

\* the call goes on to the path search unless d is already its answer
Searching(cl, d) ==
    IF d.searching
    THEN [cl EXCEPT !.pc = "path_search", !.t1 = d.t1, !.t2 = d.t2]
    ELSE Returned(cl, d.result)

Dispatch(g, cl) ==
    IF cl.q_type = "what_is" /\ Len(cl.entities) > 0
    THEN Returned(cl, answer_what_is_question(g, cl.entities[1]))
    ELSE IF cl.q_type = "who_is" /\ Len(cl.entities) > 0
    THEN Returned(cl, answer_what_is_question(g, cl.entities[1]))
    ELSE IF cl.q_type = "relationship" /\ Len(cl.entities) >= 2
    THEN Searching(cl, RelationshipDirect(g, cl.entities[1], cl.entities[2]))
    ELSE Returned(cl, answer_general_question(g, cl.entities))

\* the dispatch, with the first mention kept in the graph as a node
Route_KeepsMention(c) ==
    /\ call[c].pc = "route"
    /\ call' = [call EXCEPT ![c] = Dispatch(graph, call[c])]
    /\ graph' = IF Len(call[c].entities) > 0
                THEN ImplicitNode(graph, call[c].entities[1])
                ELSE graph
    /\ UNCHANGED <<build, graph_storage>>

Route(c) ==
    /\ call[c].pc = "route"
    /\ call' = [call EXCEPT ![c] = Dispatch(graph, call[c])]
    /\ UNCHANGED <<graph, build, graph_storage>>

\* the path search run from the second-named node to the first-named node
PathSearch_Reverse(c) ==
    /\ call[c].pc = "path_search"
    /\ \E sp \in shortest_path(graph, call[c].t2, call[c].t1) :
          LET r == RelationshipPath(graph, call[c].t1, call[c].t2, sp)
          IN call' = [call EXCEPT ![c].pc = Finished(r), ![c].searched = TRUE,
                                  ![c].result = r]
    /\ UNCHANGED <<graph, build, graph_storage>>

\* self.find_path_between_entities(target_entity1, target_entity2) and the
\* rest of answer_relationship_question
PathSearch(c) ==
    /\ call[c].pc = "path_search"
    /\ \E sp \in shortest_path(graph, call[c].t1, call[c].t2) :
          LET r == RelationshipPath(graph, call[c].t1, call[c].t2, sp)
          IN call' = [call EXCEPT ![c].pc = Finished(r), ![c].searched = TRUE,
                                  ![c].result = r]
    /\ UNCHANGED <<graph, build, graph_storage>>

\* the caller has its answer (or its exception)
Finish(c) ==
    /\ call[c].pc \in {"done", "raised"}
    /\ call' = [call EXCEPT ![c] = Idle]
    /\ UNCHANGED <<graph, build, graph_storage>>

\* get_graph_stats(graph) is called and returns
GraphStats(c) ==
    /\ call[c].pc = "idle"
    /\ call' = [call EXCEPT ![c] =
                  [Idle EXCEPT !.pc = "done", !.op = "get_graph_stats",
                               !.result = Return(get_graph_stats(graph))]]
    /\ UNCHANGED <<graph, build, graph_storage>>

\* get_graph_summary(graph) is called and returns
GraphSummary(c) ==
    /\ call[c].pc = "idle"
    /\ call' = [call EXCEPT ![c] =
                  [Idle EXCEPT !.pc = "done", !.op = "get_graph_summary",
                               !.result = Return(get_graph_summary(graph))]]
    /\ UNCHANGED <<graph, build, graph_storage>>

Init ==
    /\ graph = EmptyGraph
    /\ call = [c \in Callers |-> Idle]
    /\ build = NotBuilding
    /\ graph_storage = NoGraphs

Next ==
    \/ \E n \in NodeNames : AddNode(n)
    \/ \E u \in NodeNames, v \in NodeNames, r \in Relations : AddEdge(u, r, v)
    \/ \E c \in Callers, q \in Questions : Enter(c, q)
    \/ \E c \in Callers : Route(c)
    \/ \E c \in Callers : PathSearch(c)
    \/ \E c \in Callers : Finish(c)

Spec == Init /\ [][Next]_vars

\* ------------------------------------------------------------------------
\* Concurrent queries of one graph that has been built: the handlers of
\* api.py call answer_question, get_graph_stats and get_graph_summary on the
\* stored graph, and their steps may interleave
\* ------------------------------------------------------------------------
MaxCallers == 2
ConcCallers == 1..MaxCallers

InitConc ==
    /\ graph = sample_graph
    /\ call = [c \in ConcCallers |-> Idle]
    /\ build = NotBuilding
    /\ graph_storage = NoGraphs

NextConc ==
    \/ \E c \in ConcCallers, q \in FixtureQuestions : Enter(c, q)
    \/ \E c \in ConcCallers : Route(c)
    \/ \E c \in ConcCallers : PathSearch(c)
    \/ \E c \in ConcCallers : GraphStats(c)
    \/ \E c \in ConcCallers : GraphSummary(c)
    \/ \E c \in ConcCallers : Finish(c)

SpecConc == InitConc /\ [][NextConc]_vars

\* ------------------------------------------------------------------------
\* build_graph_from_chunks, chunk by chunk and relation by relation
\* ------------------------------------------------------------------------
MaxChunks == 2

\* the chunks the text splitter may hand over
ChunkTexts ==
    { "Ann founded Acme",
      "Ann has Acme",
      "bob founded Acme, Bob",
      "Acme Inc, Acme Ltd; acme has Ann",
      "He lives in Seattle",
      "The Cat is a Pet",
      "old Ann has Acme",
      "Ann founded Acme; Ann has Acme" }

RECURSIVE ListsUpTo(_, _)
ListsUpTo(S, n) ==
    IF n = 0 THEN {<<>>}
    ELSE ListsUpTo(S, n - 1)
         \cup {Append(l, x) : l \in {m \in ListsUpTo(S, n - 1) : Len(m) = n - 1}, x \in S}

\* the number of texts of a request, and of graphs stored
MaxTexts == 2
MaxGraphs == 2

\* the texts a request may carry, and the requests
RequestTexts == {"Ann has Acme", "Ann founded Acme"}
Requests == ListsUpTo(RequestTexts, MaxTexts)

\* builder.text_splitter.split_text(text) for a text shorter than chunk_size:
\* the text as one chunk, stripped, and no chunk for a blank text
split_text(text) == IF strip(text) = "" THEN <<>> ELSE <<strip(text)>>

\* combined_text = "\n\n".join(texts); chunks = split_text(combined_text)
Chunks(texts) == split_text(join("\n\n", texts))

\* the chunks the requests give
RequestChunks == UNION {Range(Chunks(texts)) : texts \in Requests}

\* extract_entities and extract_relations of every chunk, computed once
Extracted ==
    [t \in ChunkTexts \cup RequestChunks |->
        [entities |-> extract_entities(t),
         relations |-> extract_relations(t, extract_entities(t))]]

\* the orders in which a set may be iterated
Orders(S) ==
    {o \in [1..Cardinality(S) -> S] : \A j, k \in 1..Cardinality(S) : o[j] = o[k] => j = k}

\* for entity in entities: if not graph.has_node(entity): graph.add_node(...)
RECURSIVE AddEntities(_, _, _)
AddEntities(g, order, k) ==
    IF k > Len(order) THEN g
    ELSE AddEntities(IF has_node(g, order[k]) THEN g ELSE add_node(g, order[k], "entity"),
                     order, k + 1)

\* the next chunk of the for loop: its entities become nodes, its relations
\* are extracted
ExtractChunk ==
    /\ build.pc = "chunk" /\ build.i <= Len(build.chunks)
    /\ \E order \in Orders(Extracted[build.chunks[build.i]].entities) :
          /\ graph' = AddEntities(graph, order, 1)
          /\ build' = [build EXCEPT !.pc = "relations", !.order = order,
                           !.relations = Extracted[build.chunks[build.i]].relations]
    /\ UNCHANGED <<call, graph_storage>>

\* one turn of the loop over the chunk's relations
AddRelation ==
    /\ build.pc = "relations" /\ build.relations # <<>>
    /\ LET subject == build.relations[1][1]
           predicate == build.relations[1][2]
           obj == build.relations[1][3]
           subject_match == _find_best_entity_match(subject, build.order)
           obj_match == _find_best_entity_match(obj, build.order)
       IN graph' = IF Truthy(subject_match) /\ Truthy(obj_match)
                   THEN add_edge(graph, subject_match.entity, obj_match.entity, predicate)
                   ELSE graph
    /\ build' = [build EXCEPT !.relations = Tail(build.relations)]
    /\ UNCHANGED <<call, graph_storage>>

\* the chunk's relations are done: on to the next chunk
NextChunk ==
    /\ build.pc = "relations" /\ build.relations = <<>>
    /\ build' = [build EXCEPT !.pc = "chunk", !.i = build.i + 1, !.order = <<>>]
    /\ UNCHANGED <<graph, call, graph_storage>>

\* return graph
ReturnGraph ==
    /\ build.pc = "chunk" /\ build.i > Len(build.chunks)
    /\ build' = [build EXCEPT !.pc = "returned"]
    /\ UNCHANGED <<graph, call, graph_storage>>

InitBuild ==
    /\ graph = EmptyGraph
    /\ call = [c \in Callers |-> Idle]
    /\ \E chunks \in ListsUpTo(ChunkTexts, MaxChunks) :
          build = [pc |-> "chunk", chunks |-> chunks, i |-> 1, order |-> <<>>,
                   relations |-> <<>>]
    /\ graph_storage = NoGraphs

NextBuild ==
    \/ ExtractChunk
    \/ AddRelation
    \/ NextChunk
    \/ ReturnGraph

SpecBuild == InitBuild /\ [][NextBuild]_vars

\* ------------------------------------------------------------------------
\* POST /ingest: ingest_texts of api.py around build_graph and
\* get_graph_stats; the handler has no await, so one request is handled at a
\* time
\* ------------------------------------------------------------------------
\* str(uuid.uuid4()), taken never to repeat
GraphIds == {"graph-" \o ToString(k) : k \in 1..MaxGraphs}

HTTPException(status_code, detail) == [status_code |-> status_code, detail |-> detail]

\* str(e) of an HTTPException: the status and the detail where the
\* installed starlette defines __str__, the empty string where it does not
str(e) == {ToString(e.status_code) \o ": " \o e.detail, ""}

\* except Exception as e: raise HTTPException(status_code=500, ...)
ExceptException(text) == HTTPException(500, "Internal server error: " \o text)

\* the handler is building the graph of its request
Ingesting(texts, graph_id) ==
    [pc |-> "build_graph", op |-> "ingest_texts", texts |-> texts, graph_id |-> graph_id,
     status_code |-> 0, detail |-> "", stats |-> <<>>]

\* the handler raised e, which FastAPI turns into the response
Failed(texts, e) ==
    [pc |-> "responded", op |-> "ingest_texts", texts |-> texts, graph_id |-> "",
     status_code |-> e.status_code, detail |-> e.detail, stats |-> <<>>]

\* return IngestResponse(...)
IngestResponse(texts, graph_id, stats) ==
    [pc |-> "responded", op |-> "ingest_texts", texts |-> texts, graph_id |-> graph_id,
     status_code |-> 200,
     detail |-> "Successfully created knowledge graph with " \o ToString(stats.nodes)
                  \o " entities and " \o ToString(stats.edges) \o " relationships",
     stats |-> stats]

\* a request arrives: the check of request.texts, whose HTTPException the
\* handler's own except clause catches, then uuid4 and the call of build_graph
IngestEnter(c, texts) ==
    /\ call[c].pc = "idle" /\ build = NotBuilding
    /\ Cardinality(DOMAIN graph_storage) < MaxGraphs
    /\ IF texts = <<>>
       THEN /\ \E text \in str(HTTPException(400, "No texts provided")) :
                 call' = [call EXCEPT ![c] = Failed(texts, ExceptException(text))]
            /\ UNCHANGED <<graph, build, graph_storage>>
       ELSE /\ \E graph_id \in GraphIds \ DOMAIN graph_storage :
                 call' = [call EXCEPT ![c] = Ingesting(texts, graph_id)]
            /\ graph' = EmptyGraph
            /\ build' = [pc |-> "chunk", chunks |-> Chunks(texts), i |-> 1,
                         order |-> <<>>, relations |-> <<>>]
            /\ UNCHANGED graph_storage

\* the entry of graph_storage for a graph that was built
Entry(g, texts, stats) == [graph |-> g, texts |-> texts, stats |-> stats]

\* build_graph has returned: get_graph_stats, the entry of graph_storage and
\* the response
IngestStore(c) ==
    /\ call[c].pc = "build_graph" /\ build.pc = "returned"
    /\ LET stats == get_graph_stats(graph)
       IN /\ graph_storage' = (call[c].graph_id :> Entry(graph, call[c].texts, stats))
                                  @@ graph_storage
          /\ call' = [call EXCEPT ![c] =
                        IngestResponse(call[c].texts, call[c].graph_id, stats)]
    /\ UNCHANGED <<graph, build>>

\* the response has been sent and the handler's locals are gone
IngestFinish(c) ==
    /\ call[c].pc = "responded" /\ call[c].op = "ingest_texts"
    /\ call' = [call EXCEPT ![c] = Idle]
    /\ graph' = EmptyGraph
    /\ build' = NotBuilding
    /\ UNCHANGED graph_storage

InitIngest ==
    /\ graph = EmptyGraph
    /\ call = [c \in Callers |-> Idle]
    /\ build = NotBuilding
    /\ graph_storage = NoGraphs

NextIngest ==
    \/ \E c \in Callers, texts \in Requests : IngestEnter(c, texts)
    \/ ExtractChunk
    \/ AddRelation
    \/ NextChunk
    \/ ReturnGraph
    \/ \E c \in Callers : IngestStore(c)
    \/ \E c \in Callers : IngestFinish(c)

SpecIngest == InitIngest /\ [][NextIngest]_vars

\* ------------------------------------------------------------------------
\* Properties of answer_question (specification Spec)
\* ------------------------------------------------------------------------
Answered(c) == call[c].pc = "done" /\ number_of_nodes(graph) > 0

\* the node a mention resolves to: the first candidate of find_similar_entities
Resolves(m) == Len(find_similar_entities(graph, m)) > 0
Resolved(m) == find_similar_entities(graph, m)[1]

\* the relation attribute of the edge u -> v
LabelOf(u, v) == (CHOOSE e \in EdgeSet(graph) : e.s = u /\ e.o = v).rel

\* C1: answer_question never raises: whatever the graph (empty labels
\* included) and the question, no call ends in an exception, every finished
\* call holds an answer string, and the path search is only entered with two
\* nodes of the graph.
C1_NeverRaises ==
    \A c \in DOMAIN call :
        /\ call[c].pc # "raised"
        /\ call[c].pc = "done" => call[c].result.raised = "" /\ call[c].result.value # ""
        /\ call[c].pc = "path_search" =>
              has_node(graph, call[c].t1) /\ has_node(graph, call[c].t2)

\* a relationship question answered after a path search that found nothing,
\* on a graph that has a node with the empty label
C1_Witness ==
    \E c \in DOMAIN call :
        /\ call[c].pc = "done" /\ call[c].q_type = "relationship" /\ call[c].searched
        /\ has_node(graph, "")
        /\ Contains(call[c].result.value, "No relationship found")

\* C2: on a graph without nodes every call returns the fixed message, which
\* contains "empty", and has classified nothing and resolved nothing.
C2_EmptyGraph ==
    \A c \in DOMAIN call :
        (number_of_nodes(graph) = 0 /\ call[c].pc # "idle") =>
            /\ call[c].pc = "done"
            /\ call[c].result = Return(EmptyGraphAnswer)
            /\ Contains(lower(call[c].result.value), "empty")
            /\ call[c].q_type = "" /\ call[c].entities = <<>> /\ ~call[c].searched

C2_Witness ==
    \E c \in DOMAIN call :
        /\ number_of_nodes(graph) = 0 /\ call[c].pc = "done"
        /\ call[c].question = "What is the relationship between Google and Googol?"

\* the mentions equal to a node label, case-insensitively
EqualMentions == [n \in AllNames |-> {m \in Mentions : lower(m) = lower(n)}]

\* C5: a mention equal to some node label, case-insensitively, resolves to a
\* list of exactly one node, and that node equals the mention
\* case-insensitively, whatever came before it in the node order. (The graph
\* changes only between calls, so every graph is met with no call under way.)
C5_ExactMatchWins ==
    Quiescent =>
        \A n \in Range(NodeList(graph)) : \A m \in EqualMentions[n] :
            LET similar_entities == find_similar_entities(graph, m)
            IN /\ Len(similar_entities) = 1
               /\ similar_entities[1] \in Range(NodeList(graph))
               /\ lower(similar_entities[1]) = lower(m)

\* a what_is question answered about the node equal to its mention, which
\* comes after a node that is a substring or a similarity candidate
C5_Witness ==
    \E c \in DOMAIN call : \E i, j \in 1..number_of_nodes(graph) :
        /\ call[c].pc = "done" /\ call[c].q_type = "what_is"
        /\ i < j
        /\ ~Tests(call[c].entities[1], NodeList(graph)[i]).equal
        /\ Tests(call[c].entities[1], NodeList(graph)[i]).similar
        /\ Tests(call[c].entities[1], NodeList(graph)[j]).equal
        /\ Contains(call[c].result.value, "what I know about " \o NodeList(graph)[j] \o ":")

\* the patterns question_patterns files under 'relationship'
RelationshipTemplates ==
    UNION {Range(question_patterns[t].patterns) :
             t \in {u \in 1..Len(question_patterns) : question_patterns[u].q_type = "relationship"}}

MatchesRelationship == [q \in AllQuestions |->
    \E lits \in RelationshipTemplates : re_search(lits, lower(q)).matched]

MatchesWhatIs == [q \in AllQuestions |-> re_search(<<"what is ", "?">>, lower(q)).matched]

\* C6: a question that matches a relationship template is classified as
\* 'relationship' with exactly two mentions.
C6_RelationshipPriority ==
    \A c \in DOMAIN call :
        (call[c].pc \in {"route", "path_search", "done"} /\ number_of_nodes(graph) > 0
         /\ MatchesRelationship[call[c].question]) =>
            call[c].q_type = "relationship" /\ Len(call[c].entities) = 2

\* a classified question that matches a relationship template and the
\* 'what is X?' template
C6_Witness ==
    \E c \in DOMAIN call :
        /\ call[c].pc = "route"
        /\ MatchesRelationship[call[c].question] /\ MatchesWhatIs[call[c].question]
        /\ call[c].q_type = "relationship"

\* a relationship question both of whose mentions resolve
BothResolve(c) ==
    /\ call[c].q_type = "relationship"
    /\ Resolves(call[c].entities[1]) /\ Resolves(call[c].entities[2])

NodeA(c) == Resolved(call[c].entities[1])
NodeB(c) == Resolved(call[c].entities[2])

\* C7: with a direct edge between the two resolved nodes the answer is that
\* edge's subject, label and object, the edge from the first-named node
\* taking precedence, and no path search is run.
C7_DirectEdge ==
    \A c \in DOMAIN call :
        (call[c].pc \in {"path_search", "done"} /\ number_of_nodes(graph) > 0 /\ BothResolve(c)
         /\ (has_edge(graph, NodeA(c), NodeB(c)) \/ has_edge(graph, NodeB(c), NodeA(c)))) =>
            /\ call[c].pc = "done" /\ ~call[c].searched
            /\ call[c].result.value =
                  IF has_edge(graph, NodeA(c), NodeB(c))
                  THEN NodeA(c) \o " " \o LabelOf(NodeA(c), NodeB(c)) \o " " \o NodeB(c) \o "."
                  ELSE NodeB(c) \o " " \o LabelOf(NodeB(c), NodeA(c)) \o " " \o NodeA(c) \o "."

\* both edges exist, with different labels, and the question is answered
C7_Witness ==
    \E c \in DOMAIN call :
        /\ Answered(c) /\ BothResolve(c)
        /\ has_edge(graph, NodeA(c), NodeB(c)) /\ has_edge(graph, NodeB(c), NodeA(c))
        /\ LabelOf(NodeA(c), NodeB(c)) # LabelOf(NodeB(c), NodeA(c))

UnknownEntityQuestion == "What is Unknown Entity?"

\* the original statement of C8: "What is Unknown Entity?" against any
\* non-empty graph returns a string containing "don't have information".
C8_AnyNonEmptyGraph ==
    \A c \in DOMAIN call :
        (Answered(c) /\ call[c].question = UnknownEntityQuestion) =>
            Contains(call[c].result.value, "don't have information")

\* a node label resolves the mention when it equals it, contains it or is
\* contained in it (all case-insensitively), or has a similarity ratio of
\* 0.6 or more with it
ResolvedBy(m, n) ==
    LET ml == lower(m)
        nl == lower(n)
    IN ml = nl \/ Contains(nl, ml) \/ Contains(ml, nl) \/ RatioAtLeastThreshold(ml, nl)

UnknownEntityResolvers == {n \in AllNames : ResolvedBy("unknown entity", n)}

\* C8 as amended: "What is Unknown Entity?" against a non-empty graph returns
\* the answer "I don't have information about 'unknown entity' in the
\* knowledge graph." exactly when no node label resolves the mention
\* "unknown entity", and otherwise the description of the first node that
\* resolves it.
C8_UnresolvedOnly ==
    \A c \in DOMAIN call :
        (Answered(c) /\ call[c].question = UnknownEntityQuestion) =>
            LET unresolved == Range(NodeList(graph)) \cap UnknownEntityResolvers = {}
                described == "Based on the knowledge graph, here's what I know about "
                                 \o Resolved("unknown entity") \o ":"
            IN /\ call[c].result.value = NoInformation("unknown entity") <=> unresolved
               /\ Contains(call[c].result.value, "don't have information") <=> unresolved
               /\ ~unresolved =>
                     /\ Resolved("unknown entity") \in UnknownEntityResolvers
                     /\ StartsAt(call[c].result.value, 1, described)

\* the question answered on a non-empty graph none of whose labels resolves it
C8_Witness ==
    \E c \in DOMAIN call :
        /\ Answered(c) /\ call[c].question = UnknownEntityQuestion
        /\ Range(NodeList(graph)) \cap UnknownEntityResolvers = {}
        /\ call[c].result.value = "I don't have information about 'unknown entity' in the knowledge graph."

\* the nodes one edge away from a node of S, following the edges' direction
Step(S) == {e.o : e \in {x \in EdgeSet(graph) : x.s \in S}}

\* the nodes at the end of a walk of k edges from a
RECURSIVE Walk(_, _)
Walk(a, k) == IF k = 0 THEN {a} ELSE Step(Walk(a, k - 1))

\* a directed path of one edge or more leads from a to b
PathExists(a, b) == \E k \in 1..number_of_nodes(graph) : b \in Walk(a, k)

Distance(a, b) == Min({k \in 1..number_of_nodes(graph) : b \in Walk(a, k)})

\* the renderings of the directed paths of k edges from a to b
Chains(a, b, k) ==
    {join(" -> ", [i \in 1..k |-> p[i] \o " (" \o LabelOf(p[i], p[i + 1]) \o ") " \o p[i + 1]]) :
        p \in {q \in [1..(k + 1) -> Range(NodeList(graph))] :
                  /\ q[1] = a /\ q[k + 1] = b
                  /\ \A i \in 1..k : has_edge(graph, q[i], q[i + 1])}}

NoDirectEdge(c) ==
    /\ ~has_edge(graph, NodeA(c), NodeB(c))
    /\ ~has_edge(graph, NodeB(c), NodeA(c))

\* the original statement of C9: without a direct edge the answer contains
\* "No relationship found" exactly when no directed path leads from the
\* first-named node to the second-named node, and otherwise is the chain
\* along a shortest such path.
C9_PathFallback ==
    \A c \in DOMAIN call :
        (Answered(c) /\ BothResolve(c) /\ NoDirectEdge(c)) =>
            /\ Contains(call[c].result.value, "No relationship found")
                  <=> ~PathExists(NodeA(c), NodeB(c))
            /\ PathExists(NodeA(c), NodeB(c)) =>
                  call[c].result.value \in
                      {"There is an indirect relationship: " \o ch :
                          ch \in Chains(NodeA(c), NodeB(c), Distance(NodeA(c), NodeB(c)))}

\* C9 as amended: without a direct edge the path search is run and the
\* answer is the "No relationship found between A and B" message exactly
\* when both mentions resolve to the same node or no directed path leads
\* from the first-named node to the second-named node, and otherwise is the
\* chain along a shortest such path.
C9_PathFallbackDistinct ==
    \A c \in DOMAIN call :
        (Answered(c) /\ BothResolve(c) /\ NoDirectEdge(c)) =>
            LET found == NodeA(c) # NodeB(c) /\ PathExists(NodeA(c), NodeB(c))
                none == "No relationship found between " \o NodeA(c) \o " and "
                            \o NodeB(c) \o " in the knowledge graph."
            IN /\ call[c].searched
               /\ call[c].result.value = none <=> ~found
               /\ Contains(call[c].result.value, "No relationship found") <=> ~found
               /\ found =>
                     call[c].result.value \in
                         {"There is an indirect relationship: " \o ch :
                             ch \in Chains(NodeA(c), NodeB(c), Distance(NodeA(c), NodeB(c)))}

\* an indirect relationship is reported between two distinct nodes
C9_Witness ==
    \E c \in DOMAIN call :
        /\ Answered(c) /\ BothResolve(c) /\ NoDirectEdge(c)
        /\ NodeA(c) # NodeB(c) /\ PathExists(NodeA(c), NodeB(c))
        /\ Contains(call[c].result.value, "There is an indirect relationship: ")

Successors(n) == {e.o : e \in {x \in EdgeSet(graph) : x.s = n}}
Predecessors(n) == {e.s : e \in {x \in EdgeSet(graph) : x.o = n}}

\* the lists of at most k different elements of U
RECURSIVE Listings(_, _)
Listings(U, k) ==
    IF k = 0 THEN {<<>>}
    ELSE {<<>>} \cup UNION {{<<u>> \o l : l \in Listings(U \ {u}, k - 1)} : u \in U}

\* the lines the claim allows for node n: at most five labels drawn from the
\* incoming and outgoing neighbours, predecessors among them when n has only
\* incoming edges
AllowedLines(n) ==
    {"**" \o n \o "**: Connected to " \o join(", ", l) :
        l \in {x \in Listings(Successors(n) \cup Predecessors(n), NeighborLimit) :
                  (Successors(n) = {} /\ Predecessors(n) # {}) =>
                      Range(x) \cap Predecessors(n) # {}}}

\* the texts the claim allows for the mentions from i on
RECURSIVE AllowedTexts(_, _)
AllowedTexts(entities, i) ==
    IF i > Len(entities) THEN {<<>>}
    ELSE IF ~Resolves(entities[i]) THEN AllowedTexts(entities, i + 1)
    ELSE {<<line>> \o rest : line \in AllowedLines(Resolved(entities[i])),
                             rest \in AllowedTexts(entities, i + 1)}

\* C10: in the answer to a general question the line of each resolved node
\* lists at most five labels, drawn from the union of the node's incoming and
\* outgoing neighbours, and a node with only incoming edges has its
\* predecessors listed.
C10_NeighbourUnion ==
    \A c \in DOMAIN call :
        (Answered(c) /\ call[c].q_type = "general"
         /\ \E i \in 1..Len(call[c].entities) : Resolves(call[c].entities[i])) =>
            call[c].result.value \in
                {"Here's what I found:\n" \o join("\n", lines) :
                    lines \in AllowedTexts(call[c].entities, 1)}

\* ------------------------------------------------------------------------
\* Properties of concurrent queries (specification SpecConc)
\* ------------------------------------------------------------------------
\* what answer_question(g, question) can return when it runs alone, from its
\* first line to its return
answer_question(g, question) ==
    IF number_of_nodes(g) = 0 THEN {Return(EmptyGraphAnswer)}
    ELSE LET cl == Dispatch(g, [Idle EXCEPT !.q_type = Classified[question].q_type,
                                            !.entities = Classified[question].entities])
         IN IF cl.pc = "path_search"
            THEN {RelationshipPath(g, cl.t1, cl.t2, sp) : sp \in shortest_path(g, cl.t1, cl.t2)}
            ELSE {cl.result}

\* the answers of the fixture's questions on the fixture's graph, each
\* question asked alone
AloneAnswers == [q \in FixtureQuestions |-> answer_question(sample_graph, q)]

\* C4: the query operations leave the graph as it was built, and whatever
\* the interleaving of the callers' steps every call returns what the same
\* call returns when it runs alone.
C4_ReadOnlyQueries ==
    /\ graph = sample_graph
    /\ \A c \in DOMAIN call :
          call[c].pc \in {"done", "raised"} =>
              CASE call[c].op = "answer_question" ->
                       call[c].result \in AloneAnswers[call[c].question]
                [] call[c].op = "get_graph_stats" ->
                       call[c].result = Return(get_graph_stats(sample_graph))
                [] call[c].op = "get_graph_summary" ->
                       call[c].result = Return(get_graph_summary(sample_graph))

\* one caller has its answer after a path search while another caller's
\* call is between its dispatch and its path search
C4_Witness ==
    \E c1 \in DOMAIN call, c2 \in DOMAIN call :
        /\ c1 # c2
        /\ call[c1].pc = "done" /\ call[c1].op = "answer_question" /\ call[c1].searched
        /\ call[c2].pc = "path_search"

\* ------------------------------------------------------------------------
\* Properties of build_graph_from_chunks (specification SpecBuild)
\* ------------------------------------------------------------------------
\* the chunks whose entities have been added
ChunksStarted == IF build.pc = "relations" THEN build.i ELSE build.i - 1

\* what extract_entities found in them
EntitiesSoFar == UNION {Extracted[build.chunks[k]].entities : k \in 1..ChunksStarted}

\* the 'type' attribute of a node
NodeType(n) == graph.nodes[CHOOSE k \in 1..Len(graph.nodes) : graph.nodes[k].label = n].type

\* C3: at every point of build_graph_from_chunks, so after each chunk and at
\* the return, the subject and the object of every edge are nodes of the
\* graph that were added with type 'entity' from what extract_entities found
\* in a chunk, none of them created by the edge insertion.
C3_NoDanglingEdges ==
    \A e \in EdgeSet(graph) : \A n \in {e.s, e.o} :
        /\ n \in Range(NodeList(graph))
        /\ NodeType(n) = "entity"
        /\ n \in EntitiesSoFar

\* two chunks have been processed and the graph returned; the subject "bob"
\* was resolved to the node Bob and the subject "acme" to the node Acme Ltd
C3_Witness ==
    /\ build.pc = "returned" /\ Len(build.chunks) = 2
    /\ has_edge(graph, "Bob", "Acme")
    /\ has_edge(graph, "Acme Ltd", "Ann")

\* ------------------------------------------------------------------------
\* Properties of extract_relations (specification SpecBuild)
\* ------------------------------------------------------------------------
\* the text and an entity of the set contain one another, one way or the
\* other, without regard to case
EitherDirection(text, entities) ==
    \E entity \in entities :
        \/ Contains(lower(entity), lower(text))
        \/ Contains(lower(text), lower(entity))

\* the triples of the matches of one pattern whose subject and object both
\* pass the test in either direction
KeptOf(matches, relation_type, entities) ==
    SelectSeq([m \in 1..Len(matches) |->
                  <<strip(matches[m].groups[1]), relation_type, strip(matches[m].groups[2])>>],
              LAMBDA r : EitherDirection(r[1], entities) /\ EitherDirection(r[3], entities))

\* those triples for the patterns from t on, in the order of the table
RECURSIVE KeptEitherDirection(_, _, _)
KeptEitherDirection(text, entities, t) ==
    IF t > Len(relation_patterns) THEN <<>>
    ELSE KeptOf(re_finditer(relation_patterns[t].words, text, 1),
                relation_patterns[t].relation_type, entities)
         \o KeptEitherDirection(text, entities, t + 1)

\* the chunk whose relations are being added
Chunk == build.chunks[build.i]

\* C11: what extract_relations returns for a chunk and its entity set is the
\* list of the pattern matches whose subject contains, or is contained in, an
\* entity of the set without regard to case, and whose object does likewise:
\* each of them is kept and no other match is.
C11_AcceptEitherDirection ==
    build.pc = "relations" =>
        /\ Extracted[Chunk].relations
              = KeptEitherDirection(Chunk, Extracted[Chunk].entities, 1)
        /\ \E k \in 0..Len(Extracted[Chunk].relations) :
              build.relations = SubSeq(Extracted[Chunk].relations, k + 1,
                                       Len(Extracted[Chunk].relations))

\* ------------------------------------------------------------------------
\* Properties of the assembly (specification SpecBuild)
\* ------------------------------------------------------------------------
\* the connected ordered pairs of a graph
Pairs(g) == {<<e.s, e.o>> : e \in EdgeSet(g)}

\* the graph holds at most one edge per ordered pair
OneEdgePerPair ==
    \A u \in DOMAIN graph.succ : \A j, k \in 1..Len(graph.succ[u]) :
        graph.succ[u][j].o = graph.succ[u][k].o => j = k

\* the place of a relation type in the pattern table
PatternIndex(relation_type) ==
    CHOOSE t \in 1..Len(relation_patterns) : relation_patterns[t].relation_type = relation_type

\* the triples of a chunk wait in the order of the pattern table
TableOrder ==
    build.pc = "relations" =>
        \A j, k \in 1..Len(build.relations) :
            j < k => PatternIndex(build.relations[j][2]) <= PatternIndex(build.relations[k][2])

\* the pair the triple now at the head of the loop resolves to, if it
\* resolves
ResolvedPair ==
    IF build.pc = "relations" /\ build.relations # <<>>
    THEN LET subject_match == _find_best_entity_match(build.relations[1][1], build.order)
             obj_match == _find_best_entity_match(build.relations[1][3], build.order)
         IN IF Truthy(subject_match) /\ Truthy(obj_match)
            THEN {<<subject_match.entity, obj_match.entity>>}
            ELSE {}
    ELSE {}

\* one step of the assembly: nothing is removed, the chunks are taken in
\* order, and the pair the step's triple resolves to carries the triple's
\* predicate while every other pair keeps its label
LastWriteWins ==
    /\ Range(NodeList(graph)) \subseteq Range(NodeList(graph'))
    /\ Pairs(graph) \subseteq Pairs(graph')
    /\ build'.i \in {build.i, build.i + 1}
    /\ \A p \in Pairs(graph') :
          IF p \in ResolvedPair
          THEN edge_relation(graph', p[1], p[2], NoAttr) = build.relations[1][2]
          ELSE /\ p \in Pairs(graph)
               /\ edge_relation(graph', p[1], p[2], NoAttr)
                    = edge_relation(graph, p[1], p[2], NoAttr)

\* C12: while build_graph_from_chunks works through the chunks in order, no
\* node and no connected ordered pair is ever removed, the graph holds at
\* most one edge per ordered pair, the triples of a chunk are taken in the
\* order of the pattern table, and each triple that resolves to a pair sets
\* the pair's label to its predicate, overwriting an earlier label, while
\* the labels of all other pairs stay as they were: the label of a pair is
\* the predicate of the last triple resolved to it.
C12_MonotoneLastWriteWins ==
    /\ [](OneEdgePerPair /\ TableOrder)
    /\ [][LastWriteWins]_vars

\* the graph has been returned; 'Ann has Acme' of the first chunk was
\* overwritten in the second chunk, whose 'has' triple came before its
\* 'founded' triple
C12_Witness ==
    /\ build.pc = "returned"
    /\ build.chunks = <<"Ann has Acme", "Ann founded Acme; Ann has Acme">>
    /\ Pairs(graph) = {<<"Ann", "Acme">>}
    /\ edge_relation(graph, "Ann", "Acme", NoAttr) = "founded"

\* ------------------------------------------------------------------------
\* Properties of ingest_texts (specification SpecIngest)
\* ------------------------------------------------------------------------
\* the handler of caller c responds in this step
Responds(c) == call[c].pc # "responded" /\ call'[c].pc = "responded"

\* this step adds exactly one entry to graph_storage, under a new
\* identifier, when build_graph has returned the graph and get_graph_stats
\* its statistics
StoresOne ==
    \E graph_id \in DOMAIN graph_storage' \ DOMAIN graph_storage :
        /\ DOMAIN graph_storage' = DOMAIN graph_storage \cup {graph_id}
        /\ \A k \in DOMAIN graph_storage : graph_storage'[k] = graph_storage[k]
        /\ build.pc = "returned"
        /\ graph_storage'[graph_id].graph = graph
        /\ graph_storage'[graph_id].stats = get_graph_stats(graph)

\* C13: a request whose text list is empty is answered with status 400 and
\* the detail 'No texts provided', no identifier being created and
\* graph_storage staying as it was; every other request is answered in the
\* step that stores exactly one new entry, which happens only once
\* build_graph and get_graph_stats have completed; graph_storage changes in
\* no other way.
C13_EmptyRequestRejected ==
    [][/\ \A c \in DOMAIN call :
            Responds(c) =>
                IF call'[c].texts = <<>>
                THEN /\ call'[c].status_code = 400
                     /\ call'[c].detail = "No texts provided"
                     /\ call'[c].graph_id = ""
                     /\ graph_storage' = graph_storage
                ELSE StoresOne /\ call'[c].graph_id \in DOMAIN graph_storage'
       /\ graph_storage' # graph_storage => StoresOne]_vars

====
